---- MODULE Spec2Model ----
(***************************************************************************)
(* Model of src/conversion/pdf_to_man_markdown.py: PDFManPageConverter,    *)
(* the PDF -> man-page markdown pipeline, and its entry point main().      *)
(*                                                                         *)
(* A text (Python str) is a sequence of characters; a character is a       *)
(* one-character string, except the non-ASCII characters the code names,   *)
(* which are the tokens defined below.  A line sequence is a sequence of   *)
(* texts.  The regular expressions of the code are values built with the   *)
(* constructors Set/Cat/Alt/Rep and are interpreted by Ends.               *)
(***************************************************************************)
EXTENDS Integers, Sequences, FiniteSets, TLC

(***************************************************************************)
(* Characters                                                              *)
(***************************************************************************)
\* a string literal as a sequence of characters
S(s) == [i \in 1..Len(s) |-> SubSeq(s, i, i)]

NBSP    == "<U+00A0>"
LIG_FI  == "<U+FB01>"
LIG_FL  == "<U+FB02>"
LIG_FF  == "<U+FB00>"
LIG_FFI == "<U+FB03>"
LIG_FFL == "<U+FB04>"
LIG_LST == "<U+FB05>"
LIG_ST  == "<U+FB06>"
RSQUO   == "<U+2019>"
ENDASH  == "<U+2013>"
EMDASH  == "<U+2014>"
MINUS   == "<U+2212>"
HYPHEN  == "<U+2010>"

UpperSeq == S("ABCDEFGHIJKLMNOPQRSTUVWXYZ")
LowerSeq == S("abcdefghijklmnopqrstuvwxyz")
Range(f) == {f[i] : i \in DOMAIN f}
Upper  == Range(UpperSeq)
Lower  == Range(LowerSeq)
Digit  == Range(S("0123456789"))
Ligatures == {LIG_FI, LIG_FL, LIG_FF, LIG_FFI, LIG_FFL, LIG_LST, LIG_ST}
\* str.splitlines() line boundaries (of the characters modelled)
LineBreak == {"\n", "\r"}
\* str.isspace() / regex \s (of the characters modelled)
White  == {" ", "\t", NBSP} \cup LineBreak
\* regex \w
WordChar == Upper \cup Lower \cup Digit \cup {"_"} \cup Ligatures
\* regex [\-‐-―]
Dash   == {"-", HYPHEN, ENDASH, EMDASH}

\* str.lower() on one character
LowerChar(c) ==
  IF c \in Upper THEN LowerSeq[CHOOSE i \in 1..26 : UpperSeq[i] = c] ELSE c
UpperChar(c) ==
  IF c \in Lower THEN UpperSeq[CHOOSE i \in 1..26 : LowerSeq[i] = c] ELSE c
\* str.lower()
LowerStr(s) == [i \in 1..Len(s) |-> LowerChar(s[i])]

(***************************************************************************)
(* str methods                                                             *)
(***************************************************************************)
Min(A) == CHOOSE a \in A : \A b \in A : a <= b
Max(A) == CHOOSE a \in A : \A b \in A : b <= a

\* s[i:]  (0-based offset i)
Drop(s, i) == SubSeq(s, i + 1, Len(s))
\* s[:i]
Take(s, i) == SubSeq(s, 1, i)

\* str.startswith
StartsWith(s, p) == Len(s) >= Len(p) /\ SubSeq(s, 1, Len(p)) = p
\* s.startswith(p, i)
StartsWithAt(s, p, i) == i + Len(p) <= Len(s) /\ SubSeq(s, i + 1, i + Len(p)) = p

\* str.lstrip(), str.rstrip(), str.strip()
LStrip(s) ==
  LET nz == {i \in 1..Len(s) : s[i] \notin White}
  IN  IF nz = {} THEN <<>> ELSE SubSeq(s, Min(nz), Len(s))
RStrip(s) ==
  LET nz == {i \in 1..Len(s) : s[i] \notin White}
  IN  IF nz = {} THEN <<>> ELSE SubSeq(s, 1, Max(nz))
Strip(s) == LStrip(RStrip(s))

\* str.replace(old, new): the leftmost, non-overlapping occurrences of old
\* (old is never empty in the code)
RECURSIVE ReplaceFrom(_, _, _, _)
ReplaceFrom(s, old, new, i) ==
  LET occ == {p \in i..(Len(s) - Len(old)) : StartsWithAt(s, old, p)}
  IN  IF occ = {} THEN Drop(s, i)
      ELSE SubSeq(s, i + 1, Min(occ)) \o new
             \o ReplaceFrom(s, old, new, Min(occ) + Len(old))
Replace(s, old, new) == ReplaceFrom(s, old, new, 0)

\* str.splitlines(): a line boundary is "\r\n", "\n" or "\r"; there is no
\* empty last line after a final boundary
BreakAt(s) ==
  {b \in 1..Len(s) : s[b] \in LineBreak /\ ~(s[b] = "\n" /\ b > 1 /\ s[b - 1] = "\r")}
BreakWidth(s, b) == IF StartsWithAt(s, <<"\r", "\n">>, b - 1) THEN 2 ELSE 1
Nth(A, n) == CHOOSE x \in A : Cardinality({y \in A : y < x}) = n - 1
SplitLines(s) ==
  LET breaks == BreakAt(s)
      starts == {st \in {1} \cup {b + BreakWidth(s, b) : b \in breaks} : st <= Len(s)}
  IN  [n \in 1..Cardinality(starts) |->
         LET st == Nth(starts, n)
             nb == {b \in breaks : b >= st}
         IN  SubSeq(s, st, IF nb = {} THEN Len(s) ELSE Min(nb) - 1)]

\* sep.join(tokens): the tokens with sep between neighbours (joined by halves)
RECURSIVE JoinWith(_, _)
JoinWith(sep, ts) ==
  IF ts = <<>> THEN <<>>
  ELSE IF Len(ts) = 1 THEN ts[1]
  ELSE LET h == Len(ts) \div 2
       IN  JoinWith(sep, SubSeq(ts, 1, h)) \o sep \o JoinWith(sep, SubSeq(ts, h + 1, Len(ts)))

\* "\n".join(lines)
Join(ls) == JoinWith(<<"\n">>, ls)

\* str.split(): the maximal runs of non-whitespace characters
RECURSIVE SplitWs(_, _, _)
SplitWs(s, i, cur) ==
  IF i >= Len(s) THEN (IF cur = <<>> THEN <<>> ELSE <<cur>>)
  ELSE IF s[i + 1] \in White
       THEN (IF cur = <<>> THEN <<>> ELSE <<cur>>) \o SplitWs(s, i + 1, <<>>)
       ELSE SplitWs(s, i + 1, Append(cur, s[i + 1]))
Split(s) == SplitWs(s, 0, <<>>)


(***************************************************************************)
(* Regular expressions (module re)                                         *)
(***************************************************************************)
Set(cs)         == [op |-> "set", cs |-> cs]
Lit(c)          == Set({c})
Cat(rs)         == [op |-> "cat", rs |-> rs]
Alt(rs)         == [op |-> "alt", rs |-> rs]
\* r{lo,hi}; hi = -1 is "no upper limit"
Rep(r, lo, hi)  == [op |-> "rep", r |-> r, lo |-> lo, hi |-> hi]
Star(r)         == Rep(r, 0, -1)
Plus(r)         == Rep(r, 1, -1)
\* .  (any character but a newline)
Dot             == [op |-> "dot"]
\* \b
WordB           == [op |-> "wordb"]
\* $  (end of the text, or just before a final newline)
EndAnchor       == [op |-> "end"]
\* a literal string
Str(s)          == Cat([i \in 1..Len(s) |-> Lit(s[i])])
\* a literal string under re.IGNORECASE
StrI(s)         == Cat([i \in 1..Len(s) |-> Set({LowerChar(s[i]), UpperChar(s[i])})])
WS              == Set(White)
DigitC          == Set(Digit)

IsWordAt(s, i) == i >= 1 /\ i <= Len(s) /\ s[i] \in WordChar

\* Ends(r, s, i): the offsets j such that r matches s[i:j]
RECURSIVE Ends(_, _, _), EndsCat(_, _, _, _), EndsRep(_, _, _, _)
EndsAll(r, s, I) == UNION {Ends(r, s, i) : i \in I}
Ends(r, s, i) ==
  CASE r.op = "set"   -> IF i < Len(s) /\ s[i + 1] \in r.cs THEN {i + 1} ELSE {}
    [] r.op = "dot"   -> IF i < Len(s) /\ s[i + 1] # "\n" THEN {i + 1} ELSE {}
    [] r.op = "wordb" -> IF IsWordAt(s, i) # IsWordAt(s, i + 1) THEN {i} ELSE {}
    [] r.op = "end"   -> IF i = Len(s) \/ (i = Len(s) - 1 /\ s[i + 1] = "\n")
                         THEN {i} ELSE {}
    [] r.op = "cat"   -> EndsCat(r.rs, 1, s, {i})
    [] r.op = "alt"   -> UNION {Ends(r.rs[n], s, i) : n \in DOMAIN r.rs}
    [] r.op = "rep"   -> EndsRep(r, s, {i}, 0)
EndsCat(rs, n, s, I) ==
  IF n > Len(rs) \/ I = {} THEN I
  ELSE EndsCat(rs, n + 1, s, EndsAll(rs[n], s, I))
\* I: the offsets reached after exactly n repetitions
EndsRep(r, s, I, n) ==
  (IF n >= r.lo THEN I ELSE {})
    \cup (IF I = {} \/ n = r.hi THEN {} ELSE EndsRep(r, s, EndsAll(r.r, s, I), n + 1))

\* pattern.match(s) is not None  (anchored at the start of s)
Match(r, s) == Ends(r, s, 0) # {}

(***************************************************************************)
(* Normalizer: remove_page_delimiters, remove_footers,                     *)
(* remove_running_headers, remove_man_page_headers                         *)
(***************************************************************************)
\* r"<!--\s*Page\s+\d+\s*-->", re.IGNORECASE
page_marker_re ==
  Cat(<<Str(S("<!--")), Star(WS), StrI(S("Page")), Plus(WS), Plus(DigitC),
        Star(WS), Str(S("-->"))>>)

IsPageDelimiter(line) ==
  LET stripped == Strip(line)
  IN  stripped = S("---") \/ Match(page_marker_re, stripped)

remove_page_delimiters(text) ==
  Join(SelectSeq(SplitLines(text), LAMBDA line : ~IsPageDelimiter(line)))

\* r"StorNext\s+File\s+System\s+\d+\s*$", re.IGNORECASE
footer_re ==
  Cat(<<StrI(S("StorNext")), Plus(WS), StrI(S("File")), Plus(WS),
        StrI(S("System")), Plus(WS), Plus(DigitC), Star(WS), EndAnchor>>)

remove_footers(text) ==
  Join(SelectSeq(SplitLines(text), LAMBDA line : ~Match(footer_re, line)))

HeaderTokenChar == Upper \cup Digit \cup {"_"}

\* r"^[A-Z0-9_]+\(\d+\)\s+.*\s+[A-Z0-9_]+\(\d+\)\s*$"
header_patterns ==
  Cat(<<Plus(Set(HeaderTokenChar)), Lit("("), Plus(DigitC), Lit(")"), Plus(WS),
        Star(Dot), Plus(WS),
        Plus(Set(HeaderTokenChar)), Lit("("), Plus(DigitC), Lit(")"), Star(WS),
        EndAnchor>>)

IsRunningHeader(line) ==
  LET stripped == Strip(line)
  IN  \/ StartsWith(stripped, S("StorNext 7 Man Pages Reference Guide"))
      \/ StartsWith(stripped, S("6-68799-01"))
      \/ StartsWith(stripped, S("December 2022"))
      \/ Match(header_patterns, stripped)

remove_running_headers(text) ==
  Join(SelectSeq(SplitLines(text), LAMBDA line : ~IsRunningHeader(line)))

\* (a variant that deletes no line)
remove_man_page_headers_keep(text) == text

\* r"^[A-Z0-9_\s]+\(\)\s+[A-Z0-9_\s]+\(\)\s*$"
header_pattern ==
  Cat(<<Plus(Set(HeaderTokenChar \cup White)), Lit("("), Lit(")"), Plus(WS),
        Plus(Set(HeaderTokenChar \cup White)), Lit("("), Lit(")"), Star(WS),
        EndAnchor>>)

remove_man_page_headers(text) ==
  Join(SelectSeq(SplitLines(text),
                 LAMBDA line : ~Match(header_pattern, Strip(line))))

(***************************************************************************)
(* Structure Splitter: extract_toc_and_man_pages                           *)
(***************************************************************************)
\* r"^[A-Z0-9_ ]+\(\)\s+[A-Z0-9_ ]+\(\)\s*$"
header_re ==
  Cat(<<Plus(Set(HeaderTokenChar \cup {" "})), Lit("("), Lit(")"), Plus(WS),
        Plus(Set(HeaderTokenChar \cup {" "})), Lit("("), Lit(")"), Star(WS),
        EndAnchor>>)

TocMarker == S("Table of Contents")

\* the first index (1-based) from `from` on whose line satisfies P, or 0
FirstFrom(lines, from, P(_)) ==
  LET hits == {i \in from..Len(lines) : P(lines[i])}
  IN  IF hits = {} THEN 0 ELSE Min(hits)

\* (a variant that looks for the header line from the top of the text)
first_header_idx_from_top(lines, toc_start) ==
  FirstFrom(lines, 1, LAMBDA line : Match(header_re, Strip(line)))

toc_start_of(lines) == FirstFrom(lines, 1, LAMBDA line : Strip(line) = TocMarker)

first_header_idx_of(lines, toc_start) ==
  FirstFrom(lines, toc_start, LAMBDA line : Match(header_re, Strip(line)))

\* (a variant that takes the rest of the text as the TOC when no header line
\* follows, instead of raising)
extract_toc_and_man_pages_no_raise(text) ==
  LET lines == SplitLines(text)
      toc_start == toc_start_of(lines)
  IN  IF toc_start = 0
      THEN [err |-> "Could not find 'Table of Contents' in source file",
            toc |-> <<>>, man |-> <<>>]
      ELSE LET idx == first_header_idx_of(lines, toc_start)
               first_header_idx == IF idx = 0 THEN Len(lines) + 1 ELSE idx
           IN  [err |-> "",
                toc |-> Join(SubSeq(lines, toc_start, first_header_idx - 1)),
                man |-> Join(SubSeq(lines, first_header_idx, Len(lines)))]

\* the result: [err |-> message] when it raises ValueError, else
\* [err |-> <<>>, toc |-> toc_text, man |-> man_text]
extract_toc_and_man_pages(text) ==
  LET lines == SplitLines(text)
      toc_start == toc_start_of(lines)
  IN  IF toc_start = 0
      THEN [err |-> "Could not find 'Table of Contents' in source file",
            toc |-> <<>>, man |-> <<>>]
      ELSE LET first_header_idx == first_header_idx_of(lines, toc_start)
           IN  IF first_header_idx = 0
               THEN [err |-> "Could not find first man-page header in source file",
                     toc |-> <<>>, man |-> <<>>]
               ELSE [err |-> "",
                     toc |-> Join(SubSeq(lines, toc_start, first_header_idx - 1)),
                     man |-> Join(SubSeq(lines, first_header_idx, Len(lines)))]

(***************************************************************************)
(* TOC Indexer: build_toc_map                                              *)
(***************************************************************************)
\* re.sub(r"\s+", "", name).lower()
normalize(name) == LowerStr(SelectSeq(name, LAMBDA c : c \notin White))

\* r"^(.+?)\s+\((\d+|[lL])\s*\)\s+\d+\s*$" is toc_entry_head (group 1, lazy),
\* then \s+\( , then toc_entry_section (group 2), then toc_entry_tail
toc_entry_open    == Cat(<<Plus(WS), Lit("(")>>)
toc_entry_section == Alt(<<Plus(DigitC), Set({"l", "L"})>>)
toc_entry_tail    ==
  Cat(<<Star(WS), Lit(")"), Plus(WS), Plus(DigitC), Star(WS), EndAnchor>>)

\* the (end of group 1, start of group 2, end of group 2) of the matches
TocEntryParses(s) ==
  UNION {UNION {{<<e1, e2, e3>> :
                   e3 \in {e \in Ends(toc_entry_section, s, e2) :
                             Ends(toc_entry_tail, s, e) # {}}} :
                e2 \in Ends(toc_entry_open, s, e1)} :
         e1 \in {e \in 1..Len(s) : \A i \in 1..e : s[i] # "\n"}}

\* m = toc_entry_re.match(s): [ok |-> FALSE] or the groups; the lazy group 1
\* is the shortest one that lets the rest match
toc_entry_match(s) ==
  LET ps == TocEntryParses(s)
  IN  IF ps = {} THEN [ok |-> FALSE, g1 |-> <<>>, g2 |-> <<>>]
      ELSE LET e1 == Min({p[1] : p \in ps})
               p  == CHOOSE q \in ps : q[1] = e1
           IN  [ok |-> TRUE, g1 |-> SubSeq(s, 1, e1),
                g2 |-> SubSeq(s, p[2] + 1, p[3])]

\* (a variant that keeps the entry a key already has)
MapPutKeepFirst(m, key, value) ==
  [k \in DOMAIN m \cup {key} |-> IF k \in DOMAIN m THEN m[k] ELSE value]

\* toc_map[key] = value
MapPut(m, key, value) ==
  [k \in DOMAIN m \cup {key} |-> IF k = key THEN value ELSE m[k]]

EmptyMap == [k \in {} |-> <<>>]

RECURSIVE build_toc_loop(_, _, _)
build_toc_loop(lines, n, toc_map) ==
  IF n > Len(lines) THEN toc_map
  ELSE LET m == toc_entry_match(Strip(lines[n]))
       IN  IF m.ok
           THEN build_toc_loop(lines, n + 1,
                  MapPut(toc_map, normalize(Strip(m.g1)), <<Strip(m.g1), m.g2>>))
           ELSE build_toc_loop(lines, n + 1, toc_map)

build_toc_map(toc_text) == build_toc_loop(SplitLines(toc_text), 1, EmptyMap)

(***************************************************************************)
(* Heading Synthesizer: add_command_headings                               *)
(***************************************************************************)
\* r"^N\s*A\s*M\s*E\s*$", re.IGNORECASE
name_label_re ==
  Cat(<<StrI(S("N")), Star(WS), StrI(S("A")), Star(WS), StrI(S("M")), Star(WS),
        StrI(S("E")), Star(WS), EndAnchor>>)

\* (a variant: a window one line longer)
LookAheadLonger == 40 + 1

\* the lookahead window of a header line: search_limit = min(len(lines), i + 40)
LookAhead == 40

\* Python's None, and the truth value of a str-or-None
None == <<"<None>">>
Truthy(x) == x # None /\ x # <<>>

\* lines[n] for the 0-based index n of the code
At(lines, n) == lines[n + 1]

\* the index at which a forward scan from j stops: the first index in
\* j..limit-1 that is in stops, limit if there is none (j if j >= limit)
ScanStop(j, limit, stops) ==
  LET hit == {n \in j..(limit - 1) : n \in stops}
  IN  IF hit # {} THEN Min(hit) ELSE IF j < limit THEN limit ELSE j
\* for j in range(i + 1, search_limit): if name_label_re.match(...): break
ScanName(lines, j, limit) ==
  ScanStop(j, limit, {n \in j..(limit - 1) :
                        n < Len(lines) /\ Match(name_label_re, Strip(At(lines, n)))})
\* while k < limit and lines[k].strip() == "": k += 1
ScanBlank(lines, k, limit) ==
  ScanStop(k, limit, {n \in k..(limit - 1) :
                        n < Len(lines) /\ Strip(At(lines, n)) # <<>>})

\* re.split(r"[\-‐-―]", name_line, maxsplit=1)[0]
BeforeDash(name_line) ==
  LET ds == {i \in 1..Len(name_line) : name_line[i] \in Dash}
  IN  IF ds = {} THEN name_line ELSE SubSeq(name_line, 1, Min(ds) - 1)

\* (a variant that does not stop at the end of the lines)
search_limit_unclamped(lines, i) == i + LookAhead

\* search_limit = min(len(lines), i + 40)
search_limit_of(lines, i) ==
  IF Len(lines) < i + LookAhead THEN Len(lines) ELSE i + LookAhead

\* the indices at which the lookahead from the header line at index i
\* subscripts lines: lines[j] up to the NAME label or the limit, then lines[k]
\* up to the first non-blank line or the limit
cmd_name_reads(lines, i) ==
  LET search_limit == search_limit_of(lines, i)
      inside == IF search_limit < Len(lines) THEN search_limit ELSE Len(lines)
      j == ScanName(lines, i + 1, inside)
      upto(a, n) == {m \in a..n : m < search_limit}
  IN  IF j < inside
      THEN upto(i + 1, j) \cup upto(j + 1, ScanBlank(lines, j + 1, inside))
      ELSE upto(i + 1, j)

\* a subscript of the while loop is out of range: IndexError
add_command_raises(lines) ==
  \E i \in 0..(Len(lines) - 1) :
    /\ Match(header_re, Strip(At(lines, i)))
    /\ \E n \in cmd_name_reads(lines, i) : n >= Len(lines)

\* the command name found by the lookahead from the header line at index i
\* (0-based), or None
cmd_name_of(lines, i) ==
  LET search_limit == search_limit_of(lines, i)
      j == ScanName(lines, i + 1, search_limit)
  IN  IF j < search_limit /\ Match(name_label_re, Strip(At(lines, j)))
      THEN LET k == ScanBlank(lines, j + 1, search_limit)
           IN  IF k < search_limit
               THEN Strip(BeforeDash(Strip(At(lines, k))))
               ELSE None
      ELSE None

\* (a variant that never finds the key)
TocGetDefault(toc_map, key, default) == default

\* toc_map.get(key, (cmd_name, None))
TocGet(toc_map, key, default) ==
  IF key \in DOMAIN toc_map THEN toc_map[key] ELSE default

\* f"## {display} ({section})" if section else f"## {display}"
CommandHeading(display, section) ==
  IF Truthy(section)
  THEN S("## ") \o display \o S(" (") \o section \o S(")")
  ELSE S("## ") \o display

\* stripped.split("(")[0]
BeforeParen(stripped) ==
  LET ps == {i \in 1..Len(stripped) : stripped[i] = "("}
  IN  IF ps = {} THEN stripped ELSE SubSeq(stripped, 1, Min(ps) - 1)

\* (a variant that takes the header line's token whenever the TOC has no
\* entry)
heading_of_token(lines, toc_map, i) ==
  LET stripped == Strip(At(lines, i))
      cmd_name == cmd_name_of(lines, i)
      token == LowerStr(Strip(BeforeParen(stripped)))
  IN  IF Truthy(cmd_name) /\ normalize(cmd_name) \in DOMAIN toc_map
      THEN CommandHeading(toc_map[normalize(cmd_name)][1], toc_map[normalize(cmd_name)][2])
      ELSE IF token # <<>> THEN S("## ") \o token ELSE S("## Command")

\* the heading text of the header line at index i
heading_of(lines, toc_map, i) ==
  LET stripped == Strip(At(lines, i))
      cmd_name == cmd_name_of(lines, i)
  IN  IF Truthy(cmd_name)
      THEN LET e == TocGet(toc_map, normalize(cmd_name), <<cmd_name, None>>)
           IN  CommandHeading(e[1], e[2])
      ELSE LET token == LowerStr(Strip(BeforeParen(stripped)))
           IN  IF token # <<>> THEN S("## ") \o token ELSE S("## Command")

\* (a variant that never inserts the blank line)
BlankBeforeNever(out_lines) == out_lines

\* if out_lines and out_lines[-1].strip() != "": out_lines.append("")
BlankBefore(out_lines) ==
  IF out_lines # <<>> /\ Strip(out_lines[Len(out_lines)]) # <<>>
  THEN Append(out_lines, <<>>) ELSE out_lines

\* one iteration of the while loop: out_lines after line i
add_command_step(lines, toc_map, i, out_lines) ==
  LET line == At(lines, i)
  IN  IF Match(header_re, Strip(line))
      THEN BlankBefore(out_lines) \o <<heading_of(lines, toc_map, i), <<>>, line>>
      ELSE Append(out_lines, line)

\* the iterations for the lines lo..hi-1 (0-based) in order, from out_lines
RECURSIVE add_command_loop(_, _, _, _, _)
add_command_loop(lines, toc_map, lo, hi, out_lines) ==
  IF lo >= hi THEN out_lines
  ELSE IF hi = lo + 1 THEN add_command_step(lines, toc_map, lo, out_lines)
  ELSE LET mid == (lo + hi) \div 2
           done == add_command_loop(lines, toc_map, lo, mid, out_lines)
       \* (the first half is evaluated before the second starts; an iteration
       \* only ever appends to out_lines)
       IN  IF Len(done) >= Len(out_lines)
           THEN add_command_loop(lines, toc_map, mid, hi, done)
           ELSE done

add_command_headings(man_text, toc_map) ==
  LET lines == SplitLines(man_text)
  IN  Join(add_command_loop(lines, toc_map, 0, Len(lines), <<>>))

(***************************************************************************)
(* Heading Synthesizer: add_section_headings                               *)
(***************************************************************************)
\* r"^[A-Z0-9\s/_-]+$"
section_re ==
  Cat(<<Plus(Set(Upper \cup Digit \cup White \cup {"/", "_", "-"})), EndAnchor>>)

\* (a variant that always joins the tokens with a space)
normalize_label_spaced(text) == JoinWith(<<" ">>, Split(text))

normalize_label(text) ==
  LET tokens == Split(text)
  IN  IF tokens # <<>> /\ \A n \in DOMAIN tokens : Len(tokens[n]) <= 2
      THEN JoinWith(<<>>, tokens)
      ELSE JoinWith(<<" ">>, tokens)

\* the section-label test of one stripped line (lines 283-286)
IsSectionLabel(stripped) ==
  /\ Match(section_re, stripped)
  /\ LET letters == SelectSeq(stripped, LAMBDA c : c \in Upper \cup Digit)
     IN  /\ letters # <<>>
         /\ \E n \in DOMAIN letters : letters[n] \in Upper
         /\ Len(letters) >= 2

\* (a variant that also emits the label line after its heading)
add_section_step_keep(lines, first_section_idx, idx, out_lines) ==
  LET line == At(lines, idx)
      stripped == Strip(line)
  IN  IF idx >= first_section_idx /\ IsSectionLabel(stripped)
      THEN BlankBefore(out_lines) \o <<S("### ") \o normalize_label(stripped), line>>
      ELSE Append(out_lines, line)

\* one iteration of the for loop: out_lines after line idx
add_section_step(lines, first_section_idx, idx, out_lines) ==
  LET line == At(lines, idx)
      stripped == Strip(line)
  IN  IF idx >= first_section_idx /\ IsSectionLabel(stripped)
      THEN Append(BlankBefore(out_lines), S("### ") \o normalize_label(stripped))
      ELSE Append(out_lines, line)

\* the iterations for the lines lo..hi-1 (0-based) in order, from out_lines
RECURSIVE add_section_loop(_, _, _, _, _)
add_section_loop(lines, first_section_idx, lo, hi, out_lines) ==
  IF lo >= hi THEN out_lines
  ELSE IF hi = lo + 1 THEN add_section_step(lines, first_section_idx, lo, out_lines)
  ELSE LET mid == (lo + hi) \div 2
           done == add_section_loop(lines, first_section_idx, lo, mid, out_lines)
       \* (the first half is evaluated before the second starts; an iteration
       \* only ever appends to out_lines)
       IN  IF Len(done) >= Len(out_lines)
           THEN add_section_loop(lines, first_section_idx, mid, hi, done)
           ELSE done

add_section_headings(text) ==
  LET lines == SplitLines(text)
      \* 1-based index of the first line starting with "## ", or 0
      first == FirstFrom(lines, 1, LAMBDA line : StartsWith(line, S("## ")))
  IN  IF first = 0 THEN text
      ELSE Join(add_section_loop(lines, first - 1, 0, Len(lines), <<>>))

(***************************************************************************)
(* Heading Synthesizer: fix_missing_command_headings                       *)
(***************************************************************************)
\* (a variant: a look-back as long as the lookahead)
LookBackWide == 4 * 10

\* the look-back over raw input lines: range(max(0, idx - 10), idx)
LookBack == 10

\* j = len(out_lines) - 1; while j >= 0 and out_lines[j].strip() == "": j -= 1
BackOverBlank(out_lines, j) ==
  LET hit == {n \in 0..j : Strip(At(out_lines, n)) # <<>>}
  IN  IF hit = {} THEN -1 ELSE Max(hit)

need_heading_at(lines, idx, out_lines) ==
  LET j == BackOverBlank(out_lines, Len(out_lines) - 1)
  IN  IF j >= 0 /\ StartsWith(At(out_lines, j), S("## "))
      THEN FALSE
      ELSE ~ \E check_idx \in (IF idx - LookBack > 0 THEN idx - LookBack ELSE 0)..(idx - 1) :
               /\ check_idx < Len(lines)
               /\ LET check_line == Strip(At(lines, check_idx))
                  IN  StartsWith(check_line, S("## ")) /\ ~StartsWith(check_line, S("###"))

\* re.split(r"\s*[\-‐-―]\s*", name_line, maxsplit=1)[0]
BeforeSpacedDash(name_line) ==
  LET sep == Cat(<<Star(WS), Set(Dash), Star(WS)>>)
      at  == {i \in 0..Len(name_line) : Ends(sep, name_line, i) # {}}
  IN  IF at = {} THEN name_line ELSE SubSeq(name_line, 1, Min(at))

\* the indices at which the repair of the "### NAME" line at index idx
\* subscripts lines: the look-back lines[check_idx], then lines[k] up to the
\* first non-blank line
repair_reads(lines, idx) ==
  {c \in (IF idx - LookBack > 0 THEN idx - LookBack ELSE 0)..(idx - 1) : c < Len(lines)}
    \cup {k \in (idx + 1)..ScanBlank(lines, idx + 1, Len(lines)) : k < Len(lines)}

\* a subscript of the for loop is out of range: IndexError
fix_missing_raises(lines) ==
  \E idx \in 0..(Len(lines) - 1) :
    /\ Strip(At(lines, idx)) = S("### NAME")
    /\ \E n \in repair_reads(lines, idx) : n >= Len(lines)

repair_heading_of(lines, toc_map, idx) ==
  LET k == ScanBlank(lines, idx + 1, Len(lines))
      command_name == IF k < Len(lines)
                      THEN Strip(BeforeSpacedDash(Strip(At(lines, k))))
                      ELSE S("Command")
      e == TocGet(toc_map, normalize(command_name), <<command_name, None>>)
  IN  CommandHeading(e[1], e[2])

\* one iteration of the for loop: out_lines after line idx
fix_missing_step(lines, toc_map, idx, out_lines) ==
  LET line == At(lines, idx)
  IN  IF Strip(line) = S("### NAME") /\ need_heading_at(lines, idx, out_lines)
      THEN BlankBefore(out_lines)
             \o <<repair_heading_of(lines, toc_map, idx), <<>>, line>>
      ELSE Append(out_lines, line)

\* the iterations for the lines lo..hi-1 (0-based) in order, from out_lines
RECURSIVE fix_missing_loop(_, _, _, _, _)
fix_missing_loop(lines, toc_map, lo, hi, out_lines) ==
  IF lo >= hi THEN out_lines
  ELSE IF hi = lo + 1 THEN fix_missing_step(lines, toc_map, lo, out_lines)
  ELSE LET mid == (lo + hi) \div 2
           done == fix_missing_loop(lines, toc_map, lo, mid, out_lines)
       \* (the first half is evaluated before the second starts; an iteration
       \* only ever appends to out_lines)
       IN  IF Len(done) >= Len(out_lines)
           THEN fix_missing_loop(lines, toc_map, mid, hi, done)
           ELSE done

fix_missing_command_headings(text, toc_map) ==
  LET lines == SplitLines(text)
  IN  Join(fix_missing_loop(lines, toc_map, 0, Len(lines), <<>>))

(***************************************************************************)
(* Text Cleaner: cleanup_ligatures, cleanup_uppercase_spacing              *)
(***************************************************************************)
\* the items of the dict, in order; the key of item 10 is the string the
\* source text of lines 42-43 denotes: """: '"',\n        """
LIGATURE_REPLACEMENTS ==
  << <<<<LIG_FI>>,  S("fi")>>,
     <<<<LIG_FL>>,  S("fl")>>,
     <<<<LIG_FF>>,  S("ff")>>,
     <<<<LIG_FFI>>, S("ffi")>>,
     <<<<LIG_FFL>>, S("ffl")>>,
     <<<<LIG_LST>>, S("st")>>,
     <<<<LIG_ST>>,  S("st")>>,
     <<<<RSQUO>>,   S("'")>>,
     <<S("'"),      S("'")>>,
     <<S(": '\"',\n        "), S("\"")>>,
     <<<<ENDASH>>,  S("-")>>,
     <<<<EMDASH>>,  S("-")>>,
     <<<<MINUS>>,   S("-")>>,
     <<<<NBSP>>,    S(" ")>> >>

RECURSIVE cleanup_ligatures_loop(_, _)
cleanup_ligatures_loop(text, n) ==
  IF n > Len(LIGATURE_REPLACEMENTS) THEN text
  ELSE cleanup_ligatures_loop(
         Replace(text, LIGATURE_REPLACEMENTS[n][1], LIGATURE_REPLACEMENTS[n][2]),
         n + 1)

cleanup_ligatures(text) == cleanup_ligatures_loop(text, 1)

\* the pattern with one repetition of the group allowed: runs of two tokens
uppercase_pattern_pairs ==
  Cat(<<WordB, Rep(Cat(<<Rep(Set(Upper), 1, 4), Plus(WS)>>), 1, -1),
        Rep(Set(Upper), 1, 4), WordB>>)

\* r"\b(?:[A-Z]{1,4}\s+){2,}[A-Z]{1,4}\b"
uppercase_pattern ==
  Cat(<<WordB, Rep(Cat(<<Rep(Set(Upper), 1, 4), Plus(WS)>>), 2, -1),
        Rep(Set(Upper), 1, 4), WordB>>)

\* pattern.sub(collapse, text): scan left to right; at a match (greedy: the
\* longest), emit the match without its ' ' characters and go on after it
RECURSIVE uppercase_sub(_, _)
uppercase_sub(text, i) ==
  LET at == {p \in i..Len(text) : Ends(uppercase_pattern, text, p) # {}}
  IN  IF at = {} THEN Drop(text, i)
      ELSE LET start == Min(at)
               end   == Max(Ends(uppercase_pattern, text, start))
           IN  SubSeq(text, i + 1, start)
                 \o SelectSeq(SubSeq(text, start + 1, end), LAMBDA c : c # " ")
                 \o uppercase_sub(text, end)

cleanup_uppercase_spacing(text) == uppercase_sub(text, 0)

(***************************************************************************)
(* Text Extractor: extract_text, over the page texts the PDF reader yields *)
(***************************************************************************)
RECURSIVE extract_pages(_)
extract_pages(pages) ==
  IF pages = <<>> THEN <<>>
  ELSE <<RStrip(Replace(pages[1], <<"\r", "\n">>, <<"\n">>))>>
         \o extract_pages(Tail(pages))

extract_text(pages) == Join(extract_pages(pages))

\* final_text = f"{toc_text}\n\n{man_text}\n"
final_text(toc_text, man_text) == toc_text \o S("\n\n") \o man_text \o S("\n")

(***************************************************************************)
(* State                                                                   *)
(***************************************************************************)
VARIABLES
  pc,           \* the position of main() / convert()
  path_exists,  \* whether pdf_path exists
  pages,        \* the page texts the PDF reader yields for the document
  text,         \* convert's text
  toc_text,     \* convert's toc_text
  man_text,     \* convert's man_text
  man_in,       \* the argument of the stage that produced man_text
  toc_map,      \* convert's toc_map
  applied,      \* the Text Cleaner passes applied to man_text so far
  out_file,     \* the content of the output file, None while not written
  error,        \* the message of the exception raised, "" if none
  exit_code     \* the exit code of the process, -1 while it runs

vars == <<pc, path_exists, pages, text, toc_text, man_text, man_in, toc_map,
          applied, out_file, error, exit_code>>

(***************************************************************************)
(* Input documents                                                         *)
(***************************************************************************)
\* all sequences over V of length at most n
SeqsUpTo(V, n) == UNION {[1..k -> V] : k \in 0..n}

\* the reader's pages for the line sequence d: the first line is a page of
\* its own, ended by a Windows newline
PagesOf(d) ==
  IF Len(d) <= 1 THEN <<Join(d)>>
  ELSE <<d[1] \o S("\r\n"), Join(Tail(d))>>

\* n copies of line
Fill(line, n) == [i \in 1..n |-> line]

MaxLines == 4
MaxToc   == 2
MaxBody  == 3
MaxGap   == 41
MaxBlank == 1

\* lines of the structure splitter's cases
StructLines ==
  {S(" Table of Contents "), S("AB() AB()"), S("AB (1) 4"), S("ab - x"), <<>>}
StructDocs == SeqsUpTo(StructLines, MaxLines)

\* table-of-contents lines, before a fixed one-command body
TocLines ==
  {S("ACCESS_JSON (1)    42"), S("access_json (8) 7"), S("Access Json (l) 3"),
   S("AB (1) (2) 5"), S("AB(1) 4"), S("ab (x) 4"), S("see also")}
TocDocs ==
  {<<S("Table of Contents")>> \o t \o <<S("ACCESS_JSON() ACCESS_JSON()"), S("NAME"),
      S("access_json - manage JSON access")>> : t \in SeqsUpTo(TocLines, MaxToc)}

\* body lines after the first header line, under an empty or a one-entry TOC
BodyLines ==
  {S("AB() AB()"), S("N A M E"), S("Ab - x"), S("cd"), <<>>, S("SEE  ALSO"),
   <<ENDASH>> \o S(" y")}
BodyDocs ==
  {<<S("Table of Contents")>> \o t \o <<S("AB() AB()")>> \o b :
     t \in {<<>>, <<S("AB (1) 4")>>}, b \in SeqsUpTo(BodyLines, MaxBody)}

\* a header line, a gap of filler lines, the NAME label, blank lines, the name
\* line, and possibly a second command
GapDocs ==
  {<<S("Table of Contents")>> \o t \o <<S("AB() AB()")>> \o Fill(f, n)
      \o <<S("NAME")>> \o Fill(<<>>, b) \o <<S("Ab - x")>> \o e :
     t \in {<<>>, <<S("AB (1) 4")>>}, f \in {S("x"), <<>>}, n \in 0..MaxGap,
     b \in 0..MaxBlank, e \in {<<>>, <<S("CD() CD()"), S("NAME"), S("Cd - y")>>}}

\* texts for the Text Cleaner alone: up to MaxPieces pieces, one after another
MaxPieces == 3
MaxApply  == 2
CleanPieces ==
  {S(": '\"',\n"), Fill(NBSP, 8), S("A"), S(" B"), S("\tCD"), S(" EFGH"),
   <<LIG_FI>>, S("x"), <<NBSP>> \o S("C")}
RECURSIVE Concat(_)
Concat(ps) == IF ps = <<>> THEN <<>> ELSE ps[1] \o Concat(Tail(ps))
CleanTexts == {Concat(ps) : ps \in SeqsUpTo(CleanPieces, MaxPieces)}

(***************************************************************************)
(* main() and convert(), one action per step                               *)
(***************************************************************************)
InitOn(docs) ==
  /\ pc = "main"
  /\ path_exists \in BOOLEAN
  /\ pages \in {PagesOf(d) : d \in docs}
  /\ text = <<>>
  /\ toc_text = <<>>
  /\ man_text = <<>>
  /\ man_in = <<>>
  /\ toc_map = EmptyMap
  /\ applied = <<>>
  /\ out_file = None
  /\ error = ""
  /\ exit_code = -1

Init == InitOn(StructDocs)

\* converter = PDFManPageConverter(args.pdf_path)
Construct ==
  /\ pc = "main"
  /\ IF path_exists
     THEN pc' = "constructed" /\ error' = error
     ELSE pc' = "raised" /\ error' = "PDF file not found"
  /\ UNCHANGED <<path_exists, pages, text, toc_text, man_text, man_in, toc_map,
                 applied, out_file, exit_code>>

ExtractText ==
  /\ pc = "constructed"
  /\ text' = extract_text(pages)
  /\ pc' = "extract_text"
  /\ UNCHANGED <<path_exists, pages, toc_text, man_text, man_in, toc_map,
                 applied, out_file, error, exit_code>>

RemovePageDelimiters ==
  /\ pc = "extract_text"
  /\ text' = remove_page_delimiters(text)
  /\ pc' = "remove_page_delimiters"
  /\ UNCHANGED <<path_exists, pages, toc_text, man_text, man_in, toc_map,
                 applied, out_file, error, exit_code>>

RemoveFooters ==
  /\ pc = "remove_page_delimiters"
  /\ text' = remove_footers(text)
  /\ pc' = "remove_footers"
  /\ UNCHANGED <<path_exists, pages, toc_text, man_text, man_in, toc_map,
                 applied, out_file, error, exit_code>>

RemoveRunningHeaders ==
  /\ pc = "remove_footers"
  /\ text' = remove_running_headers(text)
  /\ pc' = "remove_running_headers"
  /\ UNCHANGED <<path_exists, pages, toc_text, man_text, man_in, toc_map,
                 applied, out_file, error, exit_code>>

ExtractTocAndManPages ==
  /\ pc = "remove_running_headers"
  /\ LET r == extract_toc_and_man_pages(text)
     IN  IF r.err = ""
         THEN /\ toc_text' = r.toc
              /\ man_text' = r.man
              /\ pc' = "extract_toc_and_man_pages"
              /\ error' = error
         ELSE /\ error' = r.err
              /\ pc' = "raised"
              /\ UNCHANGED <<toc_text, man_text>>
  /\ UNCHANGED <<path_exists, pages, text, man_in, toc_map, applied, out_file,
                 exit_code>>

BuildTocMap ==
  /\ pc = "extract_toc_and_man_pages"
  /\ toc_map' = build_toc_map(toc_text)
  /\ pc' = "build_toc_map"
  /\ UNCHANGED <<path_exists, pages, text, toc_text, man_text, man_in, applied,
                 out_file, error, exit_code>>

AddCommandHeadings ==
  /\ pc = "build_toc_map"
  /\ IF add_command_raises(SplitLines(man_text))
     THEN /\ error' = "list index out of range"
          /\ pc' = "raised"
          /\ UNCHANGED <<man_in, man_text>>
     ELSE /\ man_in' = man_text
          /\ man_text' = add_command_headings(man_text, toc_map)
          /\ pc' = "add_command_headings"
          /\ error' = error
  /\ UNCHANGED <<path_exists, pages, text, toc_text, toc_map, applied, out_file,
                 exit_code>>

AddSectionHeadings ==
  /\ pc = "add_command_headings"
  /\ man_in' = man_text
  /\ man_text' = add_section_headings(man_text)
  /\ pc' = "add_section_headings"
  /\ UNCHANGED <<path_exists, pages, text, toc_text, toc_map, applied, out_file,
                 error, exit_code>>

FixMissingCommandHeadings ==
  /\ pc = "add_section_headings"
  /\ IF fix_missing_raises(SplitLines(man_text))
     THEN /\ error' = "list index out of range"
          /\ pc' = "raised"
          /\ UNCHANGED <<man_in, man_text>>
     ELSE /\ man_in' = man_text
          /\ man_text' = fix_missing_command_headings(man_text, toc_map)
          /\ pc' = "fix_missing_command_headings"
          /\ error' = error
  /\ UNCHANGED <<path_exists, pages, text, toc_text, toc_map, applied, out_file,
                 exit_code>>

RemoveManPageHeaders ==
  /\ pc = "fix_missing_command_headings"
  /\ man_in' = man_text
  /\ man_text' = remove_man_page_headers(man_text)
  /\ pc' = "remove_man_page_headers"
  /\ UNCHANGED <<path_exists, pages, text, toc_text, toc_map, applied, out_file,
                 error, exit_code>>

CleanupLigatures ==
  /\ pc = "remove_man_page_headers"
  /\ man_in' = man_text
  /\ man_text' = cleanup_ligatures(man_text)
  /\ toc_text' = cleanup_ligatures(toc_text)
  /\ applied' = Append(applied, "cleanup_ligatures")
  /\ pc' = "cleanup_ligatures"
  /\ UNCHANGED <<path_exists, pages, text, toc_map, out_file, error, exit_code>>

CleanupUppercaseSpacing ==
  /\ pc = "cleanup_ligatures"
  /\ man_in' = man_text
  /\ man_text' = cleanup_uppercase_spacing(man_text)
  /\ toc_text' = cleanup_uppercase_spacing(toc_text)
  /\ applied' = Append(applied, "cleanup_uppercase_spacing")
  /\ pc' = "cleanup_uppercase_spacing"
  /\ UNCHANGED <<path_exists, pages, text, toc_map, out_file, error, exit_code>>

\* output_path.write_text(final_text), then main() returns: exit code 0
WriteOutput ==
  /\ pc = "cleanup_uppercase_spacing"
  /\ out_file' = final_text(toc_text, man_text)
  /\ pc' = "done"
  /\ exit_code' = 0
  /\ UNCHANGED <<path_exists, pages, text, toc_text, man_text, man_in, toc_map,
                 applied, error>>

\* except Exception as e: print(f"Error: {e}", file=sys.stderr); sys.exit(1)
MainExcept ==
  /\ pc = "raised"
  /\ pc' = "exited"
  /\ exit_code' = 1
  /\ UNCHANGED <<path_exists, pages, text, toc_text, man_text, man_in, toc_map,
                 applied, out_file, error>>

Next ==
  \/ Construct
  \/ ExtractText
  \/ RemovePageDelimiters
  \/ RemoveFooters
  \/ RemoveRunningHeaders
  \/ ExtractTocAndManPages
  \/ BuildTocMap
  \/ AddCommandHeadings
  \/ AddSectionHeadings
  \/ FixMissingCommandHeadings
  \/ RemoveManPageHeaders
  \/ CleanupLigatures
  \/ CleanupUppercaseSpacing
  \/ WriteOutput
  \/ MainExcept

Spec == Init /\ [][Next]_vars

InitToc  == InitOn(TocDocs)
SpecToc  == InitToc /\ [][Next]_vars
InitBody == InitOn(BodyDocs)
SpecBody == InitBody /\ [][Next]_vars
InitGap  == InitOn(GapDocs)
SpecGap  == InitGap /\ [][Next]_vars

(***************************************************************************)
(* The Text Cleaner passes on their own, applied in any order              *)
(***************************************************************************)
InitClean ==
  /\ pc = "cleaner"
  /\ path_exists = TRUE
  /\ pages = <<>>
  /\ text = <<>>
  /\ toc_text = <<>>
  /\ man_text \in CleanTexts
  /\ man_in = <<>>
  /\ toc_map = EmptyMap
  /\ applied = <<>>
  /\ out_file = None
  /\ error = ""
  /\ exit_code = -1

ApplyLigatures ==
  /\ pc = "cleaner"
  /\ Len(applied) < MaxApply
  /\ man_in' = man_text
  /\ man_text' = cleanup_ligatures(man_text)
  /\ applied' = Append(applied, "cleanup_ligatures")
  /\ UNCHANGED <<pc, path_exists, pages, text, toc_text, toc_map, out_file,
                 error, exit_code>>

ApplyUppercaseSpacing ==
  /\ pc = "cleaner"
  /\ Len(applied) < MaxApply
  /\ man_in' = man_text
  /\ man_text' = cleanup_uppercase_spacing(man_text)
  /\ applied' = Append(applied, "cleanup_uppercase_spacing")
  /\ UNCHANGED <<pc, path_exists, pages, text, toc_text, toc_map, out_file,
                 error, exit_code>>

NextClean == ApplyLigatures \/ ApplyUppercaseSpacing

SpecClean == InitClean /\ [][NextClean]_vars

(***************************************************************************)
(* Vocabulary of the properties                                            *)
(***************************************************************************)
IsBlank(line)      == Strip(line) = <<>>
IsBoundary(line)   == Match(header_re, Strip(line))
IsNameLabel(line)  == Match(name_label_re, Strip(line))
IsTocMarker(line)  == Strip(line) = TocMarker
Failed             == pc \in {"raised", "exited"}
\* the positions (1-based) of the lines of ls that satisfy P
Where(ls, P(_))    == {p \in 1..Len(ls) : P(ls[p])}
\* the stages of convert from the Structure Splitter on
AfterSplit ==
  {"extract_toc_and_man_pages", "build_toc_map", "add_command_headings",
   "add_section_headings", "fix_missing_command_headings",
   "remove_man_page_headers", "cleanup_ligatures", "cleanup_uppercase_spacing",
   "done"}
\* the stages before the Structure Splitter
BeforeSplit ==
  {"main", "constructed", "extract_text", "remove_page_delimiters",
   "remove_footers", "remove_running_headers"}

\* the text lacks the marker line, or a boundary line at or after the first one
LacksStructure(t) ==
  LET lines == SplitLines(t)
  IN  \/ Where(lines, IsTocMarker) = {}
      \/ \A h \in Where(lines, IsBoundary) : h < Min(Where(lines, IsTocMarker))

(***************************************************************************)
(* C1                                                                      *)
(***************************************************************************)
\* C1: a run that fails fatally never writes the output file: a missing input
\* path raises before any stage has run, a text without the marker line or
\* without a boundary line at or after it raises in the Structure Splitter,
\* before any heading synthesis, and no failed run has written the file.
C1_NoOutputOnFatalFailure ==
  /\ Failed => out_file = None
  /\ exit_code = 1 => out_file = None
  /\ (~path_exists /\ pc # "main") =>
        /\ Failed
        /\ error = "PDF file not found"
        /\ text = <<>> /\ man_text = <<>> /\ toc_map = EmptyMap
  /\ (path_exists /\ pc \notin BeforeSplit /\ LacksStructure(text)) =>
        /\ Failed
        /\ error \in {"Could not find 'Table of Contents' in source file",
                      "Could not find first man-page header in source file"}
        /\ man_text = <<>> /\ man_in = <<>> /\ toc_map = EmptyMap
  /\ out_file # None => pc = "done" /\ ~LacksStructure(text)

\* a run that has exited on a text with the marker line and a boundary line
\* only before it
C1_Witness ==
  /\ pc = "exited" /\ exit_code = 1 /\ path_exists
  /\ LET lines == SplitLines(text)
     IN  /\ Where(lines, IsTocMarker) # {}
         /\ Where(lines, IsBoundary) # {}
  /\ out_file = None

(***************************************************************************)
(* C2                                                                      *)
(***************************************************************************)
\* C2: with t the first marker line and h the first boundary-shaped line at or
\* after t, toc_text is exactly the lines t..h-1 and body_text exactly the lines
\* h..end, in order: the boundary line opens body_text, nothing from t on is
\* lost or duplicated, and boundary lines before t are ignored.
C2_SplitAtFirstBoundary ==
  pc = "extract_toc_and_man_pages" =>
    LET lines == SplitLines(text)
    IN  \E t \in 1..Len(lines) : \E h \in t..Len(lines) :
          /\ IsTocMarker(lines[t])
          /\ \A i \in 1..(t - 1) : ~IsTocMarker(lines[i])
          /\ IsBoundary(lines[h])
          /\ \A i \in t..(h - 1) : ~IsBoundary(lines[i])
          /\ toc_text = Join(SubSeq(lines, t, h - 1))
          /\ man_text = Join(SubSeq(lines, h, Len(lines)))
          /\ SplitLines(man_text)[1] = lines[h]
          /\ h > t => toc_text \o <<"\n">> \o man_text = Join(SubSeq(lines, t, Len(lines)))
          /\ h = t => toc_text = <<>>

\* a split with a boundary line before the marker and TOC lines after it
C2_Witness ==
  /\ pc = "extract_toc_and_man_pages"
  /\ LET lines == SplitLines(text)
     IN  /\ Min(Where(lines, IsBoundary)) < Min(Where(lines, IsTocMarker))
         /\ Len(SplitLines(toc_text)) >= 2

(***************************************************************************)
(* C3                                                                      *)
(***************************************************************************)
\* the offset where the longest run of characters of C that ends at offset i
\* starts
RunBack(s, i, C) ==
  Min({j \in 0..i : \A n \in (j + 1)..i : s[n] \in C})

\* a line of the shape "Name (section) page-number", read from its end: the
\* page digits, white space, ")", optional white space, the section (digits,
\* or one "l"/"L"), "(", white space, and before that the name
TocShape(line) ==
  LET s  == Strip(line)
      pg == RunBack(s, Len(s), Digit)
      cl == RunBack(s, pg, White)
      se == IF cl >= 1 THEN RunBack(s, cl - 1, White) ELSE 0
      sb == IF se >= 1 /\ s[se] \in {"l", "L"} THEN se - 1 ELSE RunBack(s, se, Digit)
      nm == IF sb >= 1 THEN RunBack(s, sb - 1, White) ELSE 0
  IN  [ok |-> /\ pg < Len(s) /\ cl < pg /\ cl >= 1 /\ s[cl] = ")"
              /\ sb < se /\ sb >= 1 /\ s[sb] = "("
              /\ nm < sb - 1 /\ nm >= 1,
       name |-> SubSeq(s, 1, nm),
       section |-> SubSeq(s, sb + 1, se)]

\* the name without its white space, upper-case letters replaced by lower-case
TocKey(name) ==
  LET bare == SelectSeq(name, LAMBDA c : c \notin {" ", "\t", NBSP, "\n", "\r"})
  IN  [i \in 1..Len(bare) |->
         IF \E n \in 1..26 : UpperSeq[n] = bare[i]
         THEN LowerSeq[CHOOSE n \in 1..26 : UpperSeq[n] = bare[i]]
         ELSE bare[i]]

\* C3: build_toc_map maps, for every TOC line of the shape
\* "Name (section) page-number", the name without white space and in lower
\* case to (name, section); the other lines add nothing; of two lines with the
\* same key the later one is in the index; "ACCESS_JSON (1)    42" gives
\* access_json -> (ACCESS_JSON, 1).
C3_TocIndexLastWins ==
  pc = "build_toc_map" =>
    LET lines  == SplitLines(toc_text)
        shaped == {i \in 1..Len(lines) : TocShape(lines[i]).ok}
        key(i) == TocKey(TocShape(lines[i]).name)
    IN  /\ DOMAIN toc_map = {key(i) : i \in shaped}
        /\ \A i \in shaped :
             (\A j \in shaped : j > i => key(j) # key(i)) =>
               toc_map[key(i)] = <<TocShape(lines[i]).name, TocShape(lines[i]).section>>
        /\ (lines # <<>> /\ lines[Len(lines)] = S("ACCESS_JSON (1)    42")) =>
             toc_map[S("access_json")] = <<S("ACCESS_JSON"), S("1")>>

\* an index built from two lines with the same key, the later one kept, the
\* later one being the example of the specification
C3_Witness ==
  /\ pc = "build_toc_map"
  /\ SplitLines(toc_text) =
       <<S("Table of Contents"), S("access_json (8) 7"), S("ACCESS_JSON (1)    42")>>
  /\ toc_map = [k \in {S("access_json")} |-> <<S("ACCESS_JSON"), S("1")>>]

(***************************************************************************)
(* Vocabulary of the heading properties                                    *)
(***************************************************************************)
\* the lines a stage received and the lines it returned
InLines  == SplitLines(man_in)
OutLines == SplitLines(man_text)

\* the position of the c-th line of ls that satisfies P, 0 if there is none
PosOfNth(ls, P(_), c) ==
  LET at == {q \in 1..Len(ls) : P(ls[q]) /\ Cardinality({r \in 1..q : P(ls[r])}) = c}
  IN  IF at = {} THEN 0 ELSE Min(at)
\* how many of the lines ls[1..p] satisfy P
CountUpTo(ls, P(_), p) == Cardinality({r \in 1..p : P(ls[r])})

\* the first position in lo..hi whose line satisfies P, 0 if there is none
FirstIn(ls, lo, hi, P(_)) ==
  LET at == {j \in lo..hi : j <= Len(ls) /\ P(ls[j])}
  IN  IF at = {} THEN 0 ELSE Min(at)

\* the text of a name line before its first dash-like character, trimmed
CandidateOf(name_line) ==
  LET s == Strip(name_line)
      n == Max({m \in 0..Len(s) : \A i \in 1..m : s[i] \notin {"-", HYPHEN, ENDASH, EMDASH}})
  IN  Strip(SubSeq(s, 1, n))

\* the text of a boundary line before its first parenthesis, lower-cased
TokenOf(boundary) ==
  LET s == Strip(boundary)
      n == Max({m \in 0..Len(s) : \A i \in 1..m : s[i] # "("})
  IN  LowerStr(Strip(SubSeq(s, 1, n)))

\* the name line of the boundary line at position p when the NAME label and
\* the name line are looked for in the w lines after p: its position, or 0
NameLinePos(ls, p, w) ==
  LET j == FirstIn(ls, p + 1, p + w, IsNameLabel)
  IN  IF j = 0 THEN 0 ELSE FirstIn(ls, j + 1, p + w, LAMBDA l : ~IsBlank(l))

\* the heading for a candidate name: from the TOC entry if there is one, else
\* the candidate as written
HeadingOfCandidate(cand, toc) ==
  IF TocKey(cand) \in DOMAIN toc
  THEN S("## ") \o toc[TocKey(cand)][1] \o S(" (") \o toc[TocKey(cand)][2] \o S(")")
  ELSE S("## ") \o cand

\* a synthesized heading line
IsHeading(line)     == StartsWith(line, S("## ")) \/ StartsWith(line, S("### "))
IsCommandHeading(line) == StartsWith(line, S("## "))
IsSectionHeading(line) == StartsWith(line, S("### "))
IsNameHeading(line) == Strip(line) = S("### NAME")

\* the position in the output of the boundary line that is at position p of
\* the input (boundary lines are neither added nor removed)
OutPosOfBoundary(p) == PosOfNth(OutLines, IsBoundary, CountUpTo(InLines, IsBoundary, p))

\* the heading emitted for the boundary line at position p of the input
EmittedHeading(p) == OutLines[OutPosOfBoundary(p) - 2]

\* a "## " heading, followed by an empty line, is just before the output line q
HeadingBefore(q) ==
  /\ q >= 3
  /\ StartsWith(OutLines[q - 2], S("## "))
  /\ OutLines[q - 1] = <<>>

(***************************************************************************)
(* C4                                                                      *)
(***************************************************************************)
\* C4: for every boundary line whose lookahead finds a NAME label and, after
\* it, a name line whose candidate name is a key of the TOC index once
\* normalized, add_command_headings emits "## <display_name> (<section>)" of
\* that TOC entry just before the boundary line (and so neither the raw
\* candidate nor the boundary token).
C4_HeadingFromTocEntry ==
  pc = "add_command_headings" =>
    \A p \in Where(InLines, IsBoundary) :
      LET k == NameLinePos(InLines, p, 39)
      IN  (k # 0 /\ TocKey(CandidateOf(InLines[k])) \in DOMAIN toc_map) =>
            LET e == toc_map[TocKey(CandidateOf(InLines[k]))]
                q == OutPosOfBoundary(p)
            IN  /\ HeadingBefore(q)
                /\ OutLines[q] = InLines[p]
                /\ EmittedHeading(p) = S("## ") \o e[1] \o S(" (") \o e[2] \o S(")")

\* the boundary AB() AB() with name line "Ab - x" under the TOC entry AB (1):
\* the heading is "## AB (1)", not "## Ab" and not "## ab"
C4_Witness ==
  /\ pc = "add_command_headings"
  /\ toc_map = [k \in {S("ab")} |-> <<S("AB"), S("1")>>]
  /\ Len(InLines) >= 3 /\ InLines[2] = S("N A M E") /\ InLines[3] = S("Ab - x")
  /\ OutLines[1] = S("## AB (1)")

(***************************************************************************)
(* C5                                                                      *)
(***************************************************************************)
\* C5 as claimed: when the TOC index has no entry for the command, the heading
\* of every boundary line is "## <token>", the boundary line before its first
\* parenthesis in lower case, whatever the name line says.
C5_TokenWheneverTocMisses ==
  pc = "add_command_headings" =>
    \A p \in Where(InLines, IsBoundary) :
      LET k == NameLinePos(InLines, p, 39)
      IN  (k = 0 \/ TocKey(CandidateOf(InLines[k])) \notin DOMAIN toc_map) =>
            EmittedHeading(p) = S("## ") \o TokenOf(InLines[p])

\* C5 as amended: when the TOC index has no entry for the candidate name, the
\* heading is "## <candidate>", the name line before its first dash, trimmed
\* and as written, whenever the lookahead resolved a non-empty candidate; it
\* is "## <token>" only when no candidate was resolved or it is empty.
C5_CandidateElseToken ==
  pc = "add_command_headings" =>
    \A p \in Where(InLines, IsBoundary) :
      LET k == NameLinePos(InLines, p, 39)
      IN  /\ (k # 0 /\ CandidateOf(InLines[k]) # <<>>
                /\ TocKey(CandidateOf(InLines[k])) \notin DOMAIN toc_map) =>
               EmittedHeading(p) = S("## ") \o CandidateOf(InLines[k])
          /\ (k = 0 \/ CandidateOf(InLines[k]) = <<>>) =>
               EmittedHeading(p) = S("## ") \o TokenOf(InLines[p])

\* an empty TOC index, a first boundary whose name line is "Ab - x" (heading
\* "## Ab") and a second boundary with nothing after it (heading "## ab")
C5_Witness ==
  /\ pc = "add_command_headings"
  /\ toc_map = EmptyMap
  /\ InLines = <<S("AB() AB()"), S("N A M E"), S("Ab - x"), S("AB() AB()")>>
  /\ OutLines[1] = S("## Ab")
  /\ OutLines[Len(OutLines) - 2] = S("## ab")

(***************************************************************************)
(* C9                                                                      *)
(***************************************************************************)
\* C9 as claimed: a NAME label at any of the 40 lines after the boundary line,
\* followed by a non-blank line, is found and that line gives the candidate
\* name of the heading.
C9_LookaheadOfForty ==
  pc = "add_command_headings" =>
    \A p \in Where(InLines, IsBoundary) :
      LET j == FirstIn(InLines, p + 1, p + 40, IsNameLabel)
          k == IF j = 0 THEN 0
               ELSE FirstIn(InLines, j + 1, Len(InLines), LAMBDA l : ~IsBlank(l))
      IN  (k # 0 /\ CandidateOf(InLines[k]) # <<>>) =>
            EmittedHeading(p) = HeadingOfCandidate(CandidateOf(InLines[k]), toc_map)

\* C9 as amended: the lookahead is the 39 lines after the boundary line: the
\* first NAME label among them is found, and the first non-blank line after
\* it gives the candidate name if it is among those 39 lines too; otherwise
\* (the label or the name line is further away, or missing) no candidate is
\* resolved and the heading is the boundary token: no line more than 39 lines
\* after the boundary line decides the heading.
C9_LookaheadOfThirtyNine ==
  pc = "add_command_headings" =>
    \A p \in Where(InLines, IsBoundary) :
      LET k == NameLinePos(InLines, p, 39)
      IN  /\ HeadingBefore(OutPosOfBoundary(p))
          /\ (k # 0 /\ CandidateOf(InLines[k]) # <<>>) =>
               EmittedHeading(p) = HeadingOfCandidate(CandidateOf(InLines[k]), toc_map)
          /\ k = 0 => EmittedHeading(p) = S("## ") \o TokenOf(InLines[p])

\* the NAME label 38 lines after the boundary line and the name line 39 lines
\* after it: found; the heading comes from the TOC entry of "Ab"
C9_Witness ==
  /\ pc = "add_command_headings"
  /\ Len(InLines) >= 40
  /\ IsBoundary(InLines[1])
  /\ \A j \in 2..38 : ~IsNameLabel(InLines[j])
  /\ IsNameLabel(InLines[39])
  /\ InLines[40] = S("Ab - x")
  /\ OutLines[1] = S("## AB (1)")

(***************************************************************************)
(* C6                                                                      *)
(***************************************************************************)
\* no three characters in a row are non-blank: every token has length <= 2
AllTokensShort(s) ==
  ~ \E i \in 1..(Len(s) - 2) :
      s[i] \notin White /\ s[i + 1] \notin White /\ s[i + 2] \notin White

\* s without white space
Unspaced(s) == SelectSeq(s, LAMBDA c : c \notin White)

\* s trimmed, with every run of white space replaced by one space
SingleSpaced(s) ==
  LET u    == Strip(s)
      keep == {i \in 1..Len(u) : u[i] \notin White \/ u[i + 1] \notin White}
  IN  [n \in 1..Cardinality(keep) |->
         IF u[Nth(keep, n)] \in White THEN " " ELSE u[Nth(keep, n)]]

\* the lines add_section_headings treats as section labels: at or after the
\* first "## " line
LabelPositions(ls) ==
  LET first == FirstIn(ls, 1, Len(ls), IsCommandHeading)
  IN  IF first = 0 THEN {}
      ELSE {p \in first..Len(ls) : IsSectionLabel(Strip(ls[p]))}

\* C6: the heading of a section label line is "### " followed by the label
\* with its tokens joined without a separator if every token has length <= 2
\* ("N A M E" -> "NAME"), and joined with exactly one space otherwise
\* ("SEE ALSO" stays "SEE ALSO").
C6_LabelNormalization ==
  pc = "add_section_headings" =>
    LET ins    == InLines
        outs   == OutLines
        labels == LabelPositions(ins)
    IN  /\ Cardinality(Where(outs, IsSectionHeading)) = Cardinality(labels)
        /\ \A p \in labels :
             LET q == PosOfNth(outs, IsSectionHeading,
                               Cardinality({r \in labels : r <= p}))
             IN  outs[q] = S("### ") \o (IF AllTokensShort(ins[p])
                                         THEN Unspaced(ins[p])
                                         ELSE SingleSpaced(ins[p]))

\* both labels in one body: "N A M E" became "### NAME" and "SEE  ALSO" became
\* "### SEE ALSO"
C6_Witness ==
  /\ pc = "add_section_headings"
  /\ \E p \in 1..Len(InLines) : InLines[p] = S("N A M E")
  /\ \E p \in 1..Len(InLines) : InLines[p] = S("SEE  ALSO")
  /\ \E q \in 1..Len(OutLines) : OutLines[q] = S("### NAME")
  /\ \E q \in 1..Len(OutLines) : OutLines[q] = S("### SEE ALSO")

(***************************************************************************)
(* C7                                                                      *)
(***************************************************************************)
\* the "### NAME" line at position p of ls needs a command heading: the
\* nearest non-blank line before it is no "## " heading, and none of the (up
\* to) 10 lines before it is one
NeedsRepair(ls, p) ==
  /\ LET before == {r \in 1..(p - 1) : ~IsBlank(ls[r])}
     IN  before = {} \/ ~IsCommandHeading(ls[Max(before)])
  /\ \A c \in 1..(p - 1) : c >= p - 10 => ~IsCommandHeading(Strip(ls[c]))

\* the heading the repair pass synthesizes for the "### NAME" line at p: from
\* the first non-blank line after it, "Command" if there is none
RepairHeading(ls, p, toc) ==
  LET k == FirstIn(ls, p + 1, Len(ls), LAMBDA l : ~IsBlank(l))
  IN  HeadingOfCandidate(IF k = 0 THEN S("Command") ELSE CandidateOf(ls[k]), toc)

\* C7: for every "### NAME" line whose nearest preceding non-blank line is no
\* "## " heading and that has no "## " heading among the up to 10 lines before
\* it, fix_missing_command_headings inserts the heading "## <name>" (and an
\* empty line) just before that line, <name> resolved through the TOC index
\* from the first non-blank line after it, up to its first dash.
C7_RepairInsertsHeading ==
  pc = "fix_missing_command_headings" =>
    LET ins  == InLines
        outs == OutLines
    IN  \A p \in Where(ins, IsNameHeading) :
          NeedsRepair(ins, p) =>
            LET q == PosOfNth(outs, IsNameHeading, CountUpTo(ins, IsNameHeading, p))
            IN  /\ q >= 3
                /\ outs[q] = ins[p]
                /\ outs[q - 1] = <<>>
                /\ outs[q - 2] = RepairHeading(ins, p, toc_map)

\* a "### NAME" line 12 or more lines after the only "## " heading, given a
\* heading of its own from the TOC entry of its name line
C7_Witness ==
  /\ pc = "fix_missing_command_headings"
  /\ DOMAIN toc_map # {}
  /\ \E p \in 12..Len(InLines) :
       /\ IsNameHeading(InLines[p])
       /\ NeedsRepair(InLines, p)
       /\ Where(InLines, IsCommandHeading) = {1}
  /\ Cardinality(Where(OutLines, LAMBDA l : l = S("## AB (1)"))) = 2

(***************************************************************************)
(* C10                                                                     *)
(***************************************************************************)
HeadingStages ==
  {"add_command_headings", "add_section_headings", "fix_missing_command_headings"}

\* how many of the positions ps of ls come after a non-blank line
AfterNonBlank(ls, ps) == Cardinality({p \in ps : p > 1 /\ ~IsBlank(ls[p - 1])})

\* C10 as claimed: in the output of the three passes every synthesized heading
\* is preceded by exactly one blank line; a "## " heading is followed by one
\* blank line and, for the primary detector, by the boundary line.
C10_ExactlyOneBlankBefore ==
  pc \in HeadingStages =>
    LET outs == OutLines
    IN  \A q \in Where(outs, IsHeading) :
          /\ q >= 2 /\ IsBlank(outs[q - 1])
          /\ q >= 3 => ~IsBlank(outs[q - 2])
          /\ IsCommandHeading(outs[q]) =>
               /\ q + 2 <= Len(outs) /\ outs[q + 1] = <<>>
               /\ pc = "add_command_headings" => IsBoundary(outs[q + 2])

\* C10 as amended: every synthesized heading that is not the first line of the
\* output is preceded by at least one blank line; each pass inserts exactly
\* one blank line before a heading when the line emitted before it is
\* non-blank and none otherwise (so blank lines of the input stay, and the
\* first line of the output can be a heading); a "## " heading is followed by
\* one empty line and then by the unchanged boundary line (primary detector)
\* or by the "### NAME" line (repair pass).
C10_BlankLineDiscipline ==
  pc \in HeadingStages =>
    LET ins  == InLines
        outs == OutLines
        inserted ==
          CASE pc = "add_command_headings" ->
                 2 * Cardinality(Where(ins, IsBoundary))
                   + AfterNonBlank(ins, Where(ins, IsBoundary))
            [] pc = "add_section_headings" ->
                 AfterNonBlank(ins, LabelPositions(ins))
            [] pc = "fix_missing_command_headings" ->
                 LET rep == {p \in Where(ins, IsNameHeading) : NeedsRepair(ins, p)}
                 IN  2 * Cardinality(rep) + AfterNonBlank(ins, rep)
    IN  /\ \A q \in Where(outs, IsHeading) : q >= 2 => IsBlank(outs[q - 1])
        /\ (ins # <<>> /\ ~IsBlank(ins[Len(ins)])) => Len(outs) = Len(ins) + inserted
        /\ \A q \in Where(outs, IsCommandHeading) :
             /\ q + 2 <= Len(outs)
             /\ outs[q + 1] = <<>>
             /\ IsBoundary(outs[q + 2]) \/ IsNameHeading(outs[q + 2])
             /\ pc = "add_command_headings" => IsBoundary(outs[q + 2])
        /\ pc = "add_command_headings" =>
             \A p \in Where(ins, IsBoundary) : outs[OutPosOfBoundary(p)] = ins[p]

\* after the repair pass: a repaired "## " heading with two blank lines of the
\* input before it, an empty line and the "### NAME" line after it, while the
\* first line of the output is a heading with nothing before it
C10_Witness ==
  /\ pc = "fix_missing_command_headings"
  /\ IsCommandHeading(OutLines[1])
  /\ \E q \in 3..(Len(OutLines) - 2) :
       /\ IsCommandHeading(OutLines[q])
       /\ IsBlank(OutLines[q - 1]) /\ IsBlank(OutLines[q - 2])
       /\ OutLines[q + 1] = <<>>
       /\ IsNameHeading(OutLines[q + 2])

(***************************************************************************)
(* C8                                                                      *)
(***************************************************************************)
\* C8: each of the two Text Cleaner passes is idempotent: applying
\* cleanup_ligatures twice gives what applying it once gives, and the same
\* for cleanup_uppercase_spacing.
C8_CleanerPassesIdempotent ==
  (pc = "cleaner" /\ Len(applied) = 2 /\ applied[1] = applied[2]) =>
    man_text = man_in

(***************************************************************************)
(* C14                                                                     *)
(***************************************************************************)
\* C14: the two Text Cleaner passes commute: for the text t the cleaner
\* started from, with cleanup_ligatures(t) just computed,
\* cleanup_uppercase_spacing(cleanup_ligatures(t)) is the same text as
\* cleanup_ligatures(cleanup_uppercase_spacing(t)).
C14_CleanerPassesCommute ==
  (pc = "cleaner" /\ applied = <<"cleanup_ligatures">>) =>
    cleanup_uppercase_spacing(man_text)
      = cleanup_ligatures(cleanup_uppercase_spacing(man_in))

(***************************************************************************)
(* C15                                                                     *)
(***************************************************************************)
\* positions a..b of s hold a run of at least k upper-case tokens: only
\* upper-case letters and whitespace, a letter at both ends, no word
\* character next to either end, no more than four letters in a row
IsRunSpan(s, a, b, k) ==
  /\ a <= b
  /\ s[a] \in Upper /\ ~IsWordAt(s, a - 1)
  /\ s[b] \in Upper /\ ~IsWordAt(s, b + 1)
  /\ \A p \in a..b : s[p] \in Upper \cup White
  /\ \A p \in a..(b - 4) : \E q \in p..(p + 4) : s[q] \notin Upper
  /\ Cardinality({p \in a..b : s[p] \in Upper
                                /\ (p = a \/ s[p - 1] \notin Upper)}) >= k

\* the ordinary spaces of s that lie inside a run of at least k tokens
RunSpaces(s, k) ==
  LET spans == {ab \in (1..Len(s)) \X (1..Len(s)) :
                  IsRunSpan(s, ab[1], ab[2], k)}
  IN  {p \in 1..Len(s) :
         s[p] = " " /\ \E ab \in spans : ab[1] < p /\ p < ab[2]}

\* s without the characters at the positions in gone
Without(s, gone) ==
  LET keep == (1..Len(s)) \ gone
  IN  [i \in 1..Cardinality(keep) |->
         s[CHOOSE p \in keep : Cardinality({q \in keep : q <= p}) = i]]

AfterUppercaseSpacing ==
  pc = "cleaner" /\ applied # <<>>
    /\ applied[Len(applied)] = "cleanup_uppercase_spacing"

SectionOutPos(ls, p) ==
  p + AfterNonBlank(ls, {r \in LabelPositions(ls) : r <= p})

\* the heading of the section label line
SectionHeadingOf(line) ==
  S("### ") \o (IF AllTokensShort(line) THEN Unspaced(line) ELSE SingleSpaced(line))

\* C11 as claimed: for every section label line of the input of
\* add_section_headings the output has its "### " heading and, after the
\* heading, still the original label line.
C11_LabelLineKept ==
  pc = "add_section_headings" =>
    LET ins  == InLines
        outs == OutLines
    IN  \A p \in LabelPositions(ins) :
          \E q \in 1..Len(outs) :
            /\ outs[q] = SectionHeadingOf(ins[p])
            /\ \E r \in (q + 1)..Len(outs) : outs[r] = ins[p]

\* C11 as amended: add_section_headings replaces every section label line by
\* its "### " heading: the heading stands at the label's place (after one
\* inserted empty line if the line before is non-blank), the label line itself
\* is not emitted, and every other line is kept, in order.
C11_LabelLineReplaced ==
  pc = "add_section_headings" =>
    LET ins    == InLines
        outs   == OutLines
        labels == LabelPositions(ins)
    IN  /\ Len(outs) = Len(ins) + AfterNonBlank(ins, labels)
        /\ \A p \in 1..Len(ins) :
             outs[SectionOutPos(ins, p)] =
               IF p \in labels THEN SectionHeadingOf(ins[p]) ELSE ins[p]

\* a body with the label line "N A M E": the output has "### NAME" and no line
\* "N A M E"
C11_Witness ==
  /\ pc = "add_section_headings"
  /\ \E p \in LabelPositions(InLines) : InLines[p] = S("N A M E")
  /\ \E q \in 1..Len(OutLines) : OutLines[q] = S("### NAME")
  /\ \A q \in 1..Len(OutLines) : OutLines[q] # S("N A M E")

(***************************************************************************)
(* Documents for the last stages: header removal and the Text Cleaner      *)
(***************************************************************************)
MaxFinal == 3

\* a header line whose first name holds a no-break space: header_pattern
\* (\s) matches it, header_re (a plain space) does not
SpacedHeader == S("A") \o <<NBSP>> \o S("B() AB()")

FinalLines ==
  {SpacedHeader, S("SEE ALSO"), S("AB CD - x"), S("N A M E"), <<>>, S("---")}
FinalDocs ==
  {<<S("Table of Contents"), S("AB (1) 4"), S("AB() AB()")>> \o b :
     b \in SeqsUpTo(FinalLines, MaxFinal)}

InitFinal == InitOn(FinalDocs)
SpecFinal == InitFinal /\ [][Next]_vars

(***************************************************************************)
(* C12                                                                     *)
(***************************************************************************)
\* the line has the shape  NAME() NAME() : two names of upper-case letters,
\* digits, "_" and white space, each followed by "()", white space between
ShapedAsBoundary(line) ==
  LET s  == Strip(line)
      n  == Len(s)
      In(i) == s[i] \in Upper \cup Digit \cup {"_"} \cup White
  IN  \E a \in 2..(n - 5) :
        /\ s[a] = "(" /\ s[a + 1] = ")"
        /\ s[n - 1] = "(" /\ s[n] = ")"
        /\ \A i \in 1..(a - 1) : In(i)
        /\ s[a + 2] \in White
        /\ \A i \in (a + 2)..(n - 2) : In(i)

\* the stages of convert from the redundant-header removal on
FromHeaderRemoval ==
  {"remove_man_page_headers", "cleanup_ligatures", "cleanup_uppercase_spacing",
   "done"}

\* C12: remove_man_page_headers runs only after add_command_headings,
\* add_section_headings and fix_missing_command_headings, in this order; from
\* then on, up to the body that is written, no line of the body has the
\* boundary shape: the Text Cleaner passes create none.
C12_HeaderRemovalLast ==
  /\ [](pc \in FromHeaderRemoval =>
          \A p \in 1..Len(OutLines) :
            ~ShapedAsBoundary(OutLines[p]) /\ ~IsBoundary(OutLines[p]))
  /\ [][/\ pc' = "add_section_headings" => pc = "add_command_headings"
        /\ pc' = "fix_missing_command_headings" => pc = "add_section_headings"
        /\ pc' = "remove_man_page_headers" => pc = "fix_missing_command_headings"]_vars

\* a written body whose input had the boundary line and a header line with a
\* no-break space, which the ligature pass would turn into a boundary line
C12_Witness ==
  /\ pc = "done"
  /\ \E p \in 1..Len(SplitLines(text)) : SplitLines(text)[p] = SpacedHeader
  /\ \E p \in 1..Len(SplitLines(text)) : SplitLines(text)[p] = S("AB() AB()")
  /\ IsBoundary(cleanup_ligatures(SpacedHeader))
  /\ man_text # <<>>

(***************************************************************************)
(* The Heading Synthesizer on its own: the four passes of convert applied  *)
(* to any body and TOC index                                               *)
(***************************************************************************)
MaxSegments == 3
GapLength   == 9

\* pieces of a body: a boundary line, a gap of filler lines, the NAME label,
\* name lines with a dash, without one and with nothing before the dash, a
\* blank line
SynthSegments ==
  {<<S("AB() AB()")>>, Fill(S("x"), GapLength), <<S("N A M E")>>, <<S("Ab - x")>>,
   <<S("cd")>>, <<S("N A M E"), <<ENDASH>> \o S(" y")>>, <<<<>>>>}
SynthBodies == {Concat(ss) : ss \in SeqsUpTo(SynthSegments, MaxSegments)}
SynthTocs   == {EmptyMap, build_toc_map(S("AB (1) 4"))}

InitSynth ==
  /\ pc = "build_toc_map"
  /\ path_exists = TRUE
  /\ pages = <<>>
  /\ text = <<>>
  /\ toc_text = <<>>
  /\ man_text \in {Join(b) : b \in SynthBodies}
  /\ man_in = <<>>
  /\ toc_map \in SynthTocs
  /\ applied = <<>>
  /\ out_file = None
  /\ error = ""
  /\ exit_code = -1

NextSynth ==
  \/ AddCommandHeadings
  \/ AddSectionHeadings
  \/ FixMissingCommandHeadings
  \/ RemoveManPageHeaders

SpecSynth == InitSynth /\ [][NextSynth]_vars

(***************************************************************************)
(* C13                                                                     *)
(***************************************************************************)
SynthStages ==
  {"add_command_headings", "add_section_headings", "fix_missing_command_headings",
   "remove_man_page_headers"}

\* C13: on every body and TOC index none of add_command_headings,
\* add_section_headings, fix_missing_command_headings and
\* remove_man_page_headers raises: each returns a text, and every index at
\* which a lookahead subscripts the lines is inside the line sequence.
C13_SynthesizerNeverRaises ==
  /\ ~Failed /\ error = ""
  /\ pc \in SynthStages => DOMAIN man_text = 1..Len(man_text)
  /\ pc = "add_command_headings" =>
       \A p \in Where(InLines, IsBoundary) :
         \A n \in cmd_name_reads(InLines, p - 1) : n \in 0..(Len(InLines) - 1)
  /\ pc = "fix_missing_command_headings" =>
       \A p \in Where(InLines, IsNameHeading) :
         \A n \in repair_reads(InLines, p - 1) : n \in 0..(Len(InLines) - 1)

\* the four passes have run on the body "AB() AB()", "N A M E", whose
\* lookahead ends at the last line
C13_Witness ==
  /\ pc = "remove_man_page_headers"
  /\ man_in = S("## ab\n\nAB() AB()\n\n### NAME")
  /\ man_text = S("## ab\n\n\n### NAME")

(***************************************************************************)
(* C16                                                                     *)
(***************************************************************************)
\* the lines of a, in order, are among the lines of b
RECURSIVE IsSubsequence(_, _)
IsSubsequence(a, b) ==
  IF a = <<>> THEN TRUE
  ELSE IF b = <<>> THEN FALSE
  ELSE IF a[1] = b[1] THEN IsSubsequence(Tail(a), Tail(b))
  ELSE IsSubsequence(a, Tail(b))

NormalizerStages ==
  {"remove_page_delimiters", "remove_footers", "remove_running_headers"}

\* the body as the Structure Splitter returned it for the normalized text
SplitterBody == extract_toc_and_man_pages(text).man

\* C16: each Normalizer pass returns at most as many lines as it received,
\* the retained lines in their original order; and the body that is written
\* has at least as many lines as the body the Structure Splitter returned.
C16_LineCountInvariant ==
  /\ [][pc' \in NormalizerStages =>
          /\ Len(SplitLines(text')) <= Len(SplitLines(text))
          /\ IsSubsequence(SplitLines(text'), SplitLines(text))]_vars
  /\ [](pc = "done" =>
          Len(SplitLines(man_text)) >= Len(SplitLines(SplitterBody)))

(***************************************************************************)
(* C17                                                                     *)
(***************************************************************************)
CommandHeadings(ls) == {p \in 1..Len(ls) : IsCommandHeading(ls[p])}

\* the "### NAME" line at p belongs to a command whose boundary line, two
\* lines below the heading that add_command_headings emitted for it at h, is
\* fewer than LookAhead lines above p
HeadedByPrimary(ls, h, p) ==
  /\ h + 2 < p
  /\ IsCommandHeading(ls[h])
  /\ IsBoundary(ls[h + 2])
  /\ p - (h + 2) < LookAhead
  /\ \A q \in (h + 1)..(p - 1) :
       ~IsCommandHeading(ls[q]) /\ ~IsNameHeading(ls[q])

\* C17: when every "### NAME" line follows, inside the lookahead of
\* add_command_headings, the boundary line of a command that got its "## "
\* heading from add_command_headings, fix_missing_command_headings inserts
\* no "## " heading.
C17_NoDuplicateHeading ==
  (/\ pc = "fix_missing_command_headings"
   /\ \A p \in 1..Len(InLines) :
        IsNameHeading(InLines[p]) =>
          \E h \in 1..(p - 1) : HeadedByPrimary(InLines, h, p))
    => Cardinality(CommandHeadings(OutLines))
         = Cardinality(CommandHeadings(InLines))

(***************************************************************************)
(* C18                                                                     *)
(***************************************************************************)
\* the heading of a boundary line for which no candidate name is found
FallbackHeading(boundary) ==
  IF TokenOf(boundary) # <<>> THEN S("## ") \o TokenOf(boundary)
  ELSE S("## Command")

\* C18: the name of a command is looked for inside its command block only: a
\* boundary line that is followed by the next boundary line with no NAME
\* label between the two gets the fallback heading, never a heading made
\* from a name line that lies after the next boundary line.
C18_NameFromOwnBlock ==
  pc = "add_command_headings" =>
    \A p \in 1..Len(InLines) : \A p2 \in (p + 1)..Len(InLines) :
      (/\ IsBoundary(InLines[p]) /\ IsBoundary(InLines[p2])
       /\ \A q \in (p + 1)..(p2 - 1) : ~IsNameLabel(InLines[q]))
        => EmittedHeading(p) = FallbackHeading(InLines[p])

(***************************************************************************)
(* C19                                                                     *)
(***************************************************************************)
\* C19: after add_command_headings and after fix_missing_command_headings,
\* every "## " heading line of the body has a non-empty name after "## ".
C19_HeadingNameNonEmpty ==
  pc \in {"add_command_headings", "fix_missing_command_headings"} =>
    \A p \in 1..Len(OutLines) :
      IsCommandHeading(OutLines[p]) => Strip(Drop(OutLines[p], 3)) # <<>>

(***************************************************************************)
(* C20                                                                     *)
(***************************************************************************)
\* C20: each Text Cleaner pass of convert keeps the synthesized headings:
\* every "## " and "### " heading line of the body it receives is a line of
\* the body it returns, character for character.
C20_HeadingsSurviveCleaner ==
  pc \in {"cleanup_ligatures", "cleanup_uppercase_spacing"} =>
    \A p \in 1..Len(InLines) :
      IsHeading(InLines[p]) => \E q \in 1..Len(OutLines) : OutLines[q] = InLines[p]

====
